---- MODULE Spec2Model ----
(***************************************************************************)
(* A model of routetales: the sliding-window burn-rate calculator          *)
(* (src/src/pfxburnrate/pfxburnrate.py) and the prefix-trie forward diff   *)
(* (src/src/ptriediff/ptriediff.py).                                        *)
(***************************************************************************)
EXTENDS Integers, Sequences, FiniteSets, TLC

\* ------------------------------------------------------------------------
\* Bounds of the model.
\* ------------------------------------------------------------------------

\* Window sizes tried by the constructor: k ranges over -MaxK .. MaxK.
MaxK == 3

\* Number of advance calls made on one calculator.
MaxAdvances == 3

\* Group keys (origin ASes) a snapshot may use.
Groups == {1, 2}

\* Member keys (prefixes) a snapshot may list for a group; key "a" is one
\* that both groups may list.
GroupKeys(g) == IF g = 1 THEN {"a", "b"} ELSE {"a"}

\* How often a collection may list a key: group 1 may list "a" twice.
Occurs(g, x) == IF g = 1 /\ x = "a" THEN {1, 2} ELSE {1}

\* The fewest keys a collection of the group lists: group 1 may come with an
\* empty collection, group 2 comes with its key or not at all.
FewestKeys(g) == IF g = 1 THEN 0 ELSE 1

\* Address width of the modelled address family, standing for the 32 bits of
\* IPv4 and the 128 bits of IPv6 (maxcidr / cidr_max in ptriediff.py).
MaxBits == 2

\* Largest number of keys of the trie a classifier helper is called on.
MaxTrieKeys == 4

\* Largest visibility count (vis_asn, vis_nhop, max_vis_*) of a snapshot.
MaxVis == 2

\* Largest number of prefixes in a snapshot that is filtered by visibility.
MaxSnapKeys == 2

\* Largest value a field of the ClassDiff under test is counted up to.
MaxCounted == 4

\* Largest number of prefixes the two snapshots of an AS-level diff hold
\* between them.
MaxAsKeys == 3

\* Origin ASes of the prefixes of these snapshots.
Asns == {1, 2}

VARIABLES
  ctor,          \* outcome of BurnRateCalculator(k): "none", "ok", "ValueError"
  k,             \* BurnRateCalculator.k
  total,         \* BurnRateCalculator._total
  snapshots,     \* BurnRateCalculator._snapshots: slot -> snapshot
  pfx_counter,   \* BurnRateCalculator._pfx_counter: group -> (key -> count)
  retKind,       \* what the last advance returned: "nocall", "None", "result"
  retRes,        \* the mapping the last advance returned (group -> result)
  hist,          \* history: the snapshots passed to advance, oldest first
  rets           \* history: retKind of every advance call, oldest first

burnVars == <<ctor, k, total, snapshots, pfx_counter, retKind, retRes, hist, rets>>

VARIABLES
  pyt,           \* the PyTricia a classifier helper is called on
  call           \* the last helper call: function, prefix, outcome

classifyVars == <<pyt, call>>

VARIABLES
  old,           \* forward_diff_pyts: the older PyTricia
  new,           \* forward_diff_pyts: the newer PyTricia
  pc,            \* forward_diff_pyts: position in the function
  visited,       \* keys the loop at pc has already iterated over
  cntdiff,       \* forward_count_diff: diff, prefix length -> ClassDiff
  diff,          \* forward_diff_pyts: the PfxFowardDiff being filled
  exc            \* the exception that ended forward_diff_pyts, or "none"

fwdVars == <<old, new, pc, visited, cntdiff, diff, exc>>

VARIABLES
  vis_snap,      \* the Snapshot remove_low_vis_pfxs is called on
  vis_snap0,     \* history: the Snapshot as it was before the call
  fracNum,       \* history: vis_frac of the call, in quarters
  visRet         \* outcome of remove_low_vis_pfxs

visVars == <<vis_snap, vis_snap0, fracNum, visRet>>

VARIABLES
  cdiff,         \* a ClassDiff object
  cdcall         \* the last call of count_change or matches_to_difftype

cdVars == <<cdiff, cdcall>>

VARIABLES
  snap_old,      \* as_forward_diff_pyts: the older Snapshot
  snap_new,      \* as_forward_diff_pyts: the newer Snapshot
  split_old,     \* as_forward_diff_pyts: snap_old.as_level_split()
  split_new,     \* as_forward_diff_pyts: snap_new.as_level_split()
  as_pc,         \* as_forward_diff_pyts: position in the function
  as_visited,    \* ASes the third loop has already iterated over
  as_diff,       \* as_forward_diff_pyts: the AsLevelFowardDiff being filled
  as_exc         \* the exception that ended as_forward_diff_pyts, or "none"

asVars == <<snap_old, snap_new, split_old, split_new, as_pc, as_visited, as_diff, as_exc>>

vars == <<burnVars, classifyVars, fwdVars, visVars, cdVars, asVars>>

\* What the operations of one part of the program leave alone.
notBurn == <<classifyVars, fwdVars, visVars, cdVars, asVars>>

notClassify == <<burnVars, fwdVars, visVars, cdVars, asVars>>

notFwd == <<burnVars, classifyVars, visVars, cdVars, asVars>>

notVis == <<burnVars, classifyVars, fwdVars, cdVars, asVars>>

notCd == <<burnVars, classifyVars, fwdVars, visVars, asVars>>

notAs == <<burnVars, classifyVars, fwdVars, visVars, cdVars>>

\* ------------------------------------------------------------------------
\* Values.
\* ------------------------------------------------------------------------

\* The argument k handed to the constructor.
KRange == (0 - MaxK) .. MaxK

\* A collection of keys (an Iterable[str] that advance can take the len of
\* and iterate again later, such as a list): the keys it lists, each with the
\* number of times it is listed.
Collections(g) ==
  UNION {{c \in [K -> {1, 2}] : \A x \in K : c[x] \in Occurs(g, x)} :
           K \in {S \in SUBSET GroupKeys(g) : Cardinality(S) >= FewestKeys(g)}}

\* A snapshot: Dict[int, Iterable[str]], a mapping from some of the groups to
\* a collection of keys.
SnapshotSpace ==
  UNION {{sn \in [G -> UNION {Collections(g) : g \in Groups}] :
            \A g \in G : sn[g] \in Collections(g)} :
           G \in SUBSET Groups}

\* An empty mapping (an empty dict; also the empty list the defaultdict
\* factory of _snapshots makes when range(k) is empty).
EmptyMap == << >>

\* Python's a % b for b # 0: the result has the sign of b.
PyMod(a, b) == IF b > 0 THEN a % b ELSE 0 - ((0 - a) % (0 - b))

Min(S) == CHOOSE x \in S : \A y \in S : x <= y

Max(S) == CHOOSE x \in S : \A y \in S : x >= y

RECURSIVE SumOver(_, _)
\* sum(f[x] for x in D)
SumOver(f, D) ==
  IF D = {} THEN 0
  ELSE LET x == CHOOSE y \in D : TRUE IN f[x] + SumOver(f, D \ {x})

\* Python's round(n / d) for n >= 0, d > 0: round half to even.
RoundHalfEven(n, d) ==
  LET q == n \div d
      r == n % d
  IN  IF 2 * r < d THEN q
      ELSE IF 2 * r > d THEN q + 1
      ELSE IF q % 2 = 0 THEN q ELSE q + 1

\* ------------------------------------------------------------------------
\* BurnRateCalculator
\* ------------------------------------------------------------------------

\* __init__: the argument check.
CtorRejects(kk) == kk = 0

\* _count_snapshot that counts a key once however often it is listed.
_count_snapshot_distinctOnly(counter, data) ==
  [asn \in (DOMAIN counter) \cup (DOMAIN data) |->
     IF asn \notin DOMAIN data THEN counter[asn]
     ELSE LET cur == IF asn \in DOMAIN counter THEN counter[asn] ELSE EmptyMap
          IN  [pfx \in (DOMAIN cur) \cup (DOMAIN data[asn]) |->
                 (IF pfx \in DOMAIN cur THEN cur[pfx] ELSE 0)
                 + (IF pfx \in DOMAIN data[asn] THEN 1 ELSE 0)]]

\* _count_snapshot: counter[asn][pfx] += 1 for every listing of a key in every
\* group of data; a group not yet counted gets an (empty) counter first.
_count_snapshot(counter, data) ==
  [asn \in (DOMAIN counter) \cup (DOMAIN data) |->
     IF asn \notin DOMAIN data THEN counter[asn]
     ELSE LET cur == IF asn \in DOMAIN counter THEN counter[asn] ELSE EmptyMap
          IN  [pfx \in (DOMAIN cur) \cup (DOMAIN data[asn]) |->
                 (IF pfx \in DOMAIN cur THEN cur[pfx] ELSE 0)
                 + (IF pfx \in DOMAIN data[asn] THEN data[asn][pfx] ELSE 0)]]

\* DecountGroup with every decremented key removed, whatever its counter.
DecountGroup_dropDecremented(cur, pfxs) ==
  LET dec == [pfx \in (DOMAIN cur) \cup (DOMAIN pfxs) |->
                (IF pfx \in DOMAIN cur THEN cur[pfx] ELSE 0)
                - (IF pfx \in DOMAIN pfxs THEN pfxs[pfx] ELSE 0)]
  IN  [pfx \in (DOMAIN dec) \ (DOMAIN pfxs) |-> dec[pfx]]

\* _decount_snapshot, for one group of data that has a counter: the keys that
\* stay after counter[asn][pfx] -= 1 for every listing of a key in data[asn]
\* and the removal of the keys whose counter was 0 after one of these
\* decrements (a key without a counter entry starts at the defaultdict's 0,
\* so its counter is never 0 after a decrement).
DecountGroup(cur, pfxs) ==
  LET start == [pfx \in (DOMAIN cur) \cup (DOMAIN pfxs) |->
                  IF pfx \in DOMAIN cur THEN cur[pfx] ELSE 0]
      dec == [pfx \in DOMAIN start |->
                start[pfx] - (IF pfx \in DOMAIN pfxs THEN pfxs[pfx] ELSE 0)]
      keep == {pfx \in DOMAIN dec :
                 ~(pfx \in DOMAIN pfxs /\ 1 <= start[pfx] /\ start[pfx] <= pfxs[pfx])}
  IN  [pfx \in keep |-> dec[pfx]]

\* The groups whose counter _decount_snapshot deletes: those of data whose
\* counter is empty after the decrement.
DecountDeletes(counter, data) ==
  {asn \in (DOMAIN counter) \cap (DOMAIN data) :
     DOMAIN DecountGroup(counter[asn], data[asn]) = {}}

\* _decount_snapshot
_decount_snapshot(counter, data) ==
  [asn \in (DOMAIN counter) \ DecountDeletes(counter, data) |->
     IF asn \in DOMAIN data
     THEN DecountGroup(counter[asn], data[asn])
     ELSE counter[asn]]

\* MustDecount one call late.
MustDecount_late(tot, kk) == tot > kk

\* advance: is the oldest snapshot decounted?
MustDecount(tot, kk) == tot >= kk

\* NotFullYet with <= for <.
NotFullYet_offByOne(tot, kk) == tot <= kk

\* advance: "Not full yet, return None", tested after _total += 1.
NotFullYet(tot, kk) == tot < kk

\* self._snapshots[slot], a defaultdict: a missing slot reads as the list
\* [[] for x in range(k)], which has no group to iterate over when k <= 0;
\* for k >= 1 the slot read by advance is always filled.
SlotRead(snaps, slot) ==
  IF slot \in DOMAIN snaps THEN snaps[slot] ELSE EmptyMap

\* self._snapshots[slot] = data
SlotWrite(snaps, slot, data) ==
  [s \in (DOMAIN snaps) \cup {slot} |-> IF s = slot THEN data ELSE snaps[s]]

\* len(snap[asn]) if asn in snap else 0
SnapLen(snap, asn) ==
  IF asn \in DOMAIN snap THEN SumOver(snap[asn], DOMAIN snap[asn]) ELSE 0

\* CntMean with a floor division for the rounding.
CntMean_floorDiv(cs, kk) ==
  IF kk > 0 THEN cs \div kk ELSE 0 - (cs \div (0 - kk))

\* int(round(cnt_cs / self.k))
CntMean(cs, kk) ==
  IF kk > 0 THEN RoundHalfEven(cs, kk) ELSE 0 - RoundHalfEven(cs, 0 - kk)

\* _calc_burn_rate_result
_calc_burn_rate_result(snaps, counter, kk, asn) ==
  LET sizes == [s \in DOMAIN snaps |-> SnapLen(snaps[s], asn)]
      vals  == {sizes[s] : s \in DOMAIN snaps}
  IN  [k |-> kk,
       pfx_cnt_min  |-> Min(vals),
       pfx_cnt_mean |-> CntMean(SumOver(sizes, DOMAIN snaps), kk),
       pfx_cnt_max  |-> Max(vals),
       pfx_cnt_uniq |-> Cardinality(DOMAIN counter[asn])]

BurnInit ==
  /\ ctor = "none"
  /\ k = 0
  /\ total = 0
  /\ snapshots = EmptyMap
  /\ pfx_counter = EmptyMap
  /\ retKind = "nocall"
  /\ retRes = EmptyMap
  /\ hist = << >>
  /\ rets = << >>

\* BurnRateCalculator(kk)
Construct(kk) ==
  /\ ctor = "none"
  /\ k' = kk
  /\ ctor' = IF CtorRejects(kk) THEN "ValueError" ELSE "ok"
  /\ UNCHANGED <<total, snapshots, pfx_counter, retKind, retRes, hist, rets>>
  /\ UNCHANGED notBurn

\* The fields of a BurnRateCalculator(kk) after __init__, with what advance
\* last returned.
NewCalculator(kk) ==
  [k |-> kk, total |-> 0, snapshots |-> EmptyMap, pfx_counter |-> EmptyMap,
   retKind |-> "nocall", retRes |-> EmptyMap]

\* advance(data) on the calculator c: its fields and the value returned.
advance(c, data) ==
  LET slot    == PyMod(c.total, c.k)
      counted == _count_snapshot(c.pfx_counter, data)
      counter == IF MustDecount(c.total, c.k)
                 THEN _decount_snapshot(counted, SlotRead(c.snapshots, slot))
                 ELSE counted
      snaps   == SlotWrite(c.snapshots, slot, data)
      full    == ~NotFullYet(c.total + 1, c.k)
  IN  [k |-> c.k,
       total |-> c.total + 1,
       snapshots |-> snaps,
       pfx_counter |-> counter,
       retKind |-> IF full THEN "result" ELSE "None",
       retRes |-> IF full
                  THEN [asn \in DOMAIN counter |->
                          _calc_burn_rate_result(snaps, counter, c.k, asn)]
                  ELSE EmptyMap]

RECURSIVE AdvanceAll(_, _, _)
\* advance(seq[i]), advance(seq[i + 1]), ... on the calculator c, in turn.
AdvanceAll(c, seq, i) ==
  IF i > Len(seq) THEN c ELSE AdvanceAll(advance(c, seq[i]), seq, i + 1)

\* advance(data)
Advance(data) ==
  /\ ctor = "ok"
  /\ total < MaxAdvances
  /\ LET c == advance([k |-> k, total |-> total, snapshots |-> snapshots,
                       pfx_counter |-> pfx_counter,
                       retKind |-> retKind, retRes |-> retRes], data)
     IN  /\ pfx_counter' = c.pfx_counter
         /\ snapshots' = c.snapshots
         /\ total' = c.total
         /\ retKind' = c.retKind
         /\ retRes' = c.retRes
         /\ hist' = Append(hist, data)
         /\ rets' = Append(rets, c.retKind)
  /\ UNCHANGED <<ctor, k>>
  /\ UNCHANGED notBurn

BurnNext ==
  \/ \E kk \in KRange : Construct(kk)
  \/ \E data \in SnapshotSpace : Advance(data)

\* ------------------------------------------------------------------------
\* Prefixes and PyTricia
\* ------------------------------------------------------------------------

RECURSIVE Pow2(_)
\* 2 ** n
Pow2(n) == IF n <= 0 THEN 1 ELSE 2 * Pow2(n - 1)

\* The addresses of the family.
Addresses == 0 .. (Pow2(MaxBits) - 1)

\* ipaddress.ip_network: a network address without host bits and a length.
AllPfx ==
  {q \in [addr : Addresses, len : 0 .. MaxBits] :
     q.addr % Pow2(MaxBits - q.len) = 0}

\* pfx.num_addresses
num_addresses(pfx) == Pow2(MaxBits - pfx.len)

\* The addresses inside pfx.
AddrsOf(pfx) == {a \in Addresses : a \div num_addresses(pfx) = pfx.addr \div num_addresses(pfx)}

\* c lies inside p and is longer: c is a more-specific prefix of p.
MoreSpecific(c, p) ==
  /\ c.len > p.len
  /\ c.addr \div num_addresses(p) = p.addr \div num_addresses(p)

\* ipaddress.ip_network((base, prefixlen)) raises ValueError when base is no
\* address of the family or has host bits set.
IpNetworkRaises(base, prefixlen) ==
  \/ base \notin Addresses
  \/ base % Pow2(MaxBits - prefixlen) # 0

\* pfx.subnets(prefixlen_diff=1): the two halves of pfx; a prefix of full
\* length yields itself.
subnets(pfx) ==
  IF pfx.len = MaxBits THEN {pfx}
  ELSE {[addr |-> pfx.addr, len |-> pfx.len + 1],
        [addr |-> pfx.addr + Pow2(MaxBits - pfx.len - 1), len |-> pfx.len + 1]}

\* A PyTricia is a mapping from its keys to their values.
TrieSpace == UNION {[K -> {""}] : K \in SUBSET AllPfx}

\* PyTricia.has_key
has_key(t, pfx) == pfx \in DOMAIN t

\* PyTricia.children and PyTricia.parent raise KeyError for a prefix that is
\* no key of the trie.
NotAKey(t, pfx) == pfx \notin DOMAIN t

\* PyTricia.children: every key that is more specific than pfx.
children(t, pfx) == {c \in DOMAIN t : MoreSpecific(c, pfx)}

\* The keys of t that cover pfx and are shorter.
Covering(t, pfx) == {q \in DOMAIN t : MoreSpecific(pfx, q)}

\* PyTricia.parent: the longest key covering pfx, None without one.
HasParent(t, pfx) == Covering(t, pfx) # {}

parent(t, pfx) ==
  CHOOSE q \in Covering(t, pfx) : \A r \in Covering(t, pfx) : r.len <= q.len

\* ------------------------------------------------------------------------
\* ClassDiff and the classifier helpers
\* ------------------------------------------------------------------------

DiffTypes == {"GAIN", "LOSS", "MAIN"}

\* ClassDiff()
NewClassDiff == [gain |-> 0, loss |-> 0, main |-> 0]

\* ClassDiff.count_change without its MAIN branch.
count_change_noMain(cd, t) ==
  IF t = "GAIN" THEN [cd EXCEPT !.gain = @ + 1]
  ELSE IF t = "LOSS" THEN [cd EXCEPT !.loss = @ + 1]
  ELSE cd

\* ClassDiff.count_change for a tag of DiffType (any other tag raises).
count_change(cd, t) ==
  IF t = "GAIN" THEN [cd EXCEPT !.gain = @ + 1]
  ELSE IF t = "LOSS" THEN [cd EXCEPT !.loss = @ + 1]
  ELSE IF t = "MAIN" THEN [cd EXCEPT !.main = @ + 1]
  ELSE cd

\* count_change without its else branch: no tag raises.
CountChangeRaises_never(t) == FALSE

\* ClassDiff.count_change raises ValueError for any other tag.
CountChangeRaises(t) == t \notin DiffTypes

\* ClassDiff.add_diff
add_diff(cd, d) ==
  [gain |-> cd.gain + d.gain, loss |-> cd.loss + d.loss, main |-> cd.main + d.main]

\* The nine characteristics a ClassTracker follows besides cnt_pfx.
Chars ==
  {"has_no_direct_msp_coverage", "has_partial_direct_msp_coverage",
   "has_full_direct_msp_coverage", "has_no_msp_coverage",
   "has_partial_msp_coverage", "has_full_msp_coverage",
   "has_sibling", "has_direct_less_specific", "has_less_specific"}

\* ClassTracker()
NewClassTracker == [f \in Chars \cup {"cnt_pfx"} |-> NewClassDiff]

\* matches_to_difftype with the two unequal cases exchanged.
matches_to_difftype_swapped(old_match, new_match) ==
  IF old_match = new_match THEN "MAIN"
  ELSE IF old_match THEN "GAIN"
  ELSE "LOSS"

matches_to_difftype(old_match, new_match) ==
  IF old_match = new_match THEN "MAIN"
  ELSE IF old_match THEN "LOSS"
  ELSE "GAIN"

count_direct_msps(t, pfx) == Cardinality({msp \in subnets(pfx) : has_key(t, msp)})

\* count_msp_covered_addresses with every child counted, nested ones too.
CoveringMsps_all(t, pfx) == children(t, pfx)

\* count_msp_covered_addresses: the children the loop counts, those whose
\* parent in the trie is pfx.
CoveringMsps(t, pfx) == {msp \in children(t, pfx) : parent(t, msp) = pfx}

\* count_msp_covered_addresses: KeyError from children(pfx) for no key.
CountMspCoveredRaises(t, pfx) == NotAKey(t, pfx)

\* count_msp_covered_addresses, for a key of the trie.
count_msp_covered_addresses(t, pfx) ==
  LET msps == CoveringMsps(t, pfx)
  IN  SumOver([msp \in msps |-> Pow2(MaxBits - msp.len)], msps)

\* SibBase with the bit one position too high.
SibBase_nextBit(pfx) ==
  LET bit == Pow2(MaxBits - pfx.len + 1)
  IN  IF (pfx.addr \div bit) % 2 = 0 THEN pfx.addr + bit ELSE pfx.addr - bit

\* has_sibling_in_pyt: base ^ 2 ** (cidr_max - prefixlen)
SibBase(pfx) ==
  LET bit == Pow2(MaxBits - pfx.len)
  IN  IF (pfx.addr \div bit) % 2 = 0 THEN pfx.addr + bit ELSE pfx.addr - bit

\* has_sibling_in_pyt: ip_network((sib_base, prefixlen)) raises ValueError.
HasSiblingRaises(pfx) == IpNetworkRaises(SibBase(pfx), pfx.len)

\* has_sibling_in_pyt, when the sibling is a network.
has_sibling_in_pyt(t, pfx) ==
  has_key(t, [addr |-> SibBase(pfx), len |-> pfx.len])

\* has_direct_less_specific_in_pyt, for a key of the trie.
has_direct_less_specific_in_pyt(t, pfx) ==
  IF HasParent(t, pfx) THEN pfx.len - parent(t, pfx).len = 1 ELSE FALSE

\* The direct-MSP-coverage predicates: no, partial and full.
DirNo(cnt) == cnt = 0

DirPartial(cnt) == cnt = 1

DirFull(cnt) == cnt = 2

has_no_direct_msp_coverage(o, n, pfx) ==
  matches_to_difftype(DirNo(count_direct_msps(o, pfx)), DirNo(count_direct_msps(n, pfx)))

has_partial_direct_msp_coverage(o, n, pfx) ==
  matches_to_difftype(DirPartial(count_direct_msps(o, pfx)),
                      DirPartial(count_direct_msps(n, pfx)))

has_full_direct_msp_coverage(o, n, pfx) ==
  matches_to_difftype(DirFull(count_direct_msps(o, pfx)), DirFull(count_direct_msps(n, pfx)))

\* The address-coverage predicates: no, partial and full.
CovNo(cov, full_cov) == cov = 0

\* CovPartial with <= for the second <.
CovPartial_inclusive(cov, full_cov) == 0 < cov /\ cov <= full_cov

CovPartial(cov, full_cov) == 0 < cov /\ cov < full_cov

CovFull(cov, full_cov) == cov = full_cov

\* combined_has_address_msp_coverage: (cov_no, cov_part, cov_full)
combined_has_address_msp_coverage(o, n, pfx) ==
  LET full_cov == num_addresses(pfx)
      old_cov  == count_msp_covered_addresses(o, pfx)
      new_cov  == count_msp_covered_addresses(n, pfx)
  IN  <<matches_to_difftype(CovNo(old_cov, full_cov), CovNo(new_cov, full_cov)),
        matches_to_difftype(CovPartial(old_cov, full_cov), CovPartial(new_cov, full_cov)),
        matches_to_difftype(CovFull(old_cov, full_cov), CovFull(new_cov, full_cov))>>

has_sibling(o, n, pfx) ==
  matches_to_difftype(has_sibling_in_pyt(o, pfx), has_sibling_in_pyt(n, pfx))

has_direct_less_specific(o, n, pfx) ==
  matches_to_difftype(has_direct_less_specific_in_pyt(o, pfx),
                      has_direct_less_specific_in_pyt(n, pfx))

has_less_specific(o, n, pfx) ==
  matches_to_difftype(HasParent(o, pfx), HasParent(n, pfx))

\* ------------------------------------------------------------------------
\* Calls of the classifier helpers on one trie
\* ------------------------------------------------------------------------

NoCall == [fn |-> "none", pfx |-> [addr |-> 0, len |-> 0], exc |-> "none", val |-> 0]

ClassifyInit ==
  /\ pyt \in {t \in TrieSpace : Cardinality(DOMAIN t) <= MaxTrieKeys}
  /\ call = NoCall

\* count_direct_msps(pyt, pfx)
CallCountDirectMsps(pfx) ==
  /\ call' = [fn |-> "count_direct_msps", pfx |-> pfx, exc |-> "none",
              val |-> count_direct_msps(pyt, pfx)]
  /\ UNCHANGED pyt
  /\ UNCHANGED notClassify

\* count_msp_covered_addresses(pyt, pfx)
CallCountMspCoveredAddresses(pfx) ==
  /\ call' = IF CountMspCoveredRaises(pyt, pfx)
             THEN [fn |-> "count_msp_covered_addresses", pfx |-> pfx,
                   exc |-> "KeyError", val |-> 0]
             ELSE [fn |-> "count_msp_covered_addresses", pfx |-> pfx,
                   exc |-> "none", val |-> count_msp_covered_addresses(pyt, pfx)]
  /\ UNCHANGED pyt
  /\ UNCHANGED notClassify

\* has_sibling_in_pyt(pyt, pfx); val is the boolean returned.
CallHasSiblingInPyt(pfx) ==
  /\ call' = IF HasSiblingRaises(pfx)
             THEN [fn |-> "has_sibling_in_pyt", pfx |-> pfx,
                   exc |-> "ValueError", val |-> FALSE]
             ELSE [fn |-> "has_sibling_in_pyt", pfx |-> pfx,
                   exc |-> "none", val |-> has_sibling_in_pyt(pyt, pfx)]
  /\ UNCHANGED pyt
  /\ UNCHANGED notClassify

ClassifyNext ==
  \/ \E pfx \in AllPfx : CallCountDirectMsps(pfx)
  \/ \E pfx \in AllPfx : CallCountMspCoveredAddresses(pfx)
  \/ \E pfx \in AllPfx : CallHasSiblingInPyt(pfx)

\* ------------------------------------------------------------------------
\* ClassDiff.count_change and matches_to_difftype, called directly
\* ------------------------------------------------------------------------

\* An argument of count_change that is no DiffType (ptriediff_test.py calls
\* count_change(10000)).
InvalidTag == "10000"

\* No call made yet.
NoCdCall ==
  [fn |-> "none", old_match |-> FALSE, new_match |-> FALSE, tag |-> "none",
   exc |-> "none", ret |-> "none", before |-> NewClassDiff]

CdInit ==
  /\ cdiff = NewClassDiff
  /\ cdcall = NoCdCall

\* cdiff.count_change(t)
CallCountChange(t) ==
  /\ \A f \in DOMAIN cdiff : cdiff[f] < MaxCounted
  /\ cdiff' = count_change(cdiff, t)
  /\ cdcall' = [NoCdCall EXCEPT !.fn = "count_change", !.tag = t,
                                !.exc = IF CountChangeRaises(t) THEN "ValueError" ELSE "none",
                                !.before = cdiff]
  /\ UNCHANGED notCd

\* matches_to_difftype(old_match, new_match)
CallMatchesToDifftype(old_match, new_match) ==
  /\ cdcall' = [NoCdCall EXCEPT !.fn = "matches_to_difftype",
                                !.old_match = old_match, !.new_match = new_match,
                                !.ret = matches_to_difftype(old_match, new_match)]
  /\ UNCHANGED cdiff
  /\ UNCHANGED notCd

CdNext ==
  \/ \E t \in DiffTypes \cup {InvalidTag} : CallCountChange(t)
  \/ \E old_match \in BOOLEAN, new_match \in BOOLEAN :
       CallMatchesToDifftype(old_match, new_match)

\* ------------------------------------------------------------------------
\* forward_count_diff and forward_diff_pyts
\* ------------------------------------------------------------------------

\* PfxFowardDiff()
NewPfxFowardDiff ==
  [cnt_pfx_old |-> 0, cnt_pfx_new |-> 0,
   classtracker_by_cidr |-> EmptyMap,
   class_totals |-> NewClassTracker]

\* d[key] of a defaultdict: the entry, made by the factory when missing.
DefaultGet(d, key, fresh) == IF key \in DOMAIN d THEN d[key] ELSE fresh

\* d[key] = value
MapSet(d, key, value) ==
  [x \in (DOMAIN d) \cup {key} |-> IF x = key THEN value ELSE d[x]]

\* forward_count_diff: diff[pfx.prefixlen].count_change(t)
CountAt(d, pfx, t) ==
  MapSet(d, pfx.len, count_change(DefaultGet(d, pfx.len, NewClassDiff), t))

\* forward_diff_pyts: the DiffTypes computed for one comparable prefix.
CalcDiffTypes(o, n, pfx) ==
  LET cov == combined_has_address_msp_coverage(o, n, pfx)
  IN  [has_no_direct_msp_coverage      |-> has_no_direct_msp_coverage(o, n, pfx),
       has_partial_direct_msp_coverage |-> has_partial_direct_msp_coverage(o, n, pfx),
       has_full_direct_msp_coverage    |-> has_full_direct_msp_coverage(o, n, pfx),
       has_no_msp_coverage             |-> cov[1],
       has_partial_msp_coverage        |-> cov[2],
       has_full_msp_coverage           |-> cov[3],
       has_sibling                     |-> has_sibling(o, n, pfx),
       has_direct_less_specific        |-> has_direct_less_specific(o, n, pfx),
       has_less_specific               |-> has_less_specific(o, n, pfx)]

\* forward_diff_pyts: the nine count_change calls on one ClassTracker.
TrackDiffTypes(tracker, dts) ==
  [f \in DOMAIN tracker |->
     IF f \in Chars THEN count_change(tracker[f], dts[f]) ELSE tracker[f]]

\* forward_diff_pyts: the body of "for cidr in cntdiff" for all of cntdiff,
\* on the diff d with the counts cd that forward_count_diff returned.
FoldedCounts(d, cd) ==
  [d EXCEPT
     !.class_totals.cnt_pfx =
        [gain |-> SumOver([c \in DOMAIN cd |-> cd[c].gain], DOMAIN cd),
         loss |-> SumOver([c \in DOMAIN cd |-> cd[c].loss], DOMAIN cd),
         main |-> SumOver([c \in DOMAIN cd |-> cd[c].main], DOMAIN cd)],
     !.classtracker_by_cidr =
        [c \in DOMAIN cd |-> [NewClassTracker EXCEPT !.cnt_pfx = cd[c]]]]

\* forward_diff_pyts: the body of the second "for pfx_str in old" for the
\* key pfx of old, on the diff d (has_sibling not raising).
CompareOne(d, o, n, pfx) ==
  IF ~has_key(n, pfx) THEN d
  ELSE LET dts == CalcDiffTypes(o, n, pfx)
       IN  [d EXCEPT
              !.class_totals = TrackDiffTypes(@, dts),
              !.classtracker_by_cidr =
                 MapSet(@, pfx.len,
                        TrackDiffTypes(DefaultGet(@, pfx.len, NewClassTracker), dts))]

RECURSIVE CountOldOver(_, _, _)
\* forward_count_diff: the first loop over the keys todo of old, in one order.
CountOldOver(cd, n, todo) ==
  IF todo = {} THEN cd
  ELSE LET pfx == CHOOSE p \in todo : TRUE
       IN  CountOldOver(CountAt(cd, pfx, IF has_key(n, pfx) THEN "MAIN" ELSE "LOSS"),
                        n, todo \ {pfx})

RECURSIVE CountNewOver(_, _, _)
\* forward_count_diff: the second loop over the keys todo of new, in one order.
CountNewOver(cd, o, todo) ==
  IF todo = {} THEN cd
  ELSE LET pfx == CHOOSE p \in todo : TRUE
       IN  CountNewOver(IF has_key(o, pfx) THEN cd ELSE CountAt(cd, pfx, "GAIN"),
                        o, todo \ {pfx})

\* forward_count_diff(o, n), with the keys iterated in one order.
forward_count_diff(o, n) ==
  CountNewOver(CountOldOver(EmptyMap, n, DOMAIN o), o, DOMAIN n)

RECURSIVE CompareOver(_, _, _, _)
\* forward_diff_pyts: the second loop over the keys todo of old, in one order.
CompareOver(d, o, n, todo) ==
  IF todo = {} THEN d
  ELSE LET pfx == CHOOSE p \in todo : TRUE
       IN  CompareOver(CompareOne(d, o, n, pfx), o, n, todo \ {pfx})

\* forward_diff_pyts raises: has_sibling raises for a key of both tries.
ForwardDiffRaises(o, n) ==
  \E pfx \in (DOMAIN o) \cap (DOMAIN n) : HasSiblingRaises(pfx)

\* forward_diff_pyts: the diff as it is before the second loop.
CountedDiff(o, n) ==
  FoldedCounts([NewPfxFowardDiff EXCEPT !.cnt_pfx_old = Cardinality(DOMAIN o),
                                        !.cnt_pfx_new = Cardinality(DOMAIN n)],
               forward_count_diff(o, n))

\* forward_diff_pyts(o, n) when it does not raise, with the keys iterated in
\* one order.
forward_diff_pyts(o, n) == CompareOver(CountedDiff(o, n), o, n, DOMAIN o)

FwdInit ==
  /\ old \in TrieSpace
  /\ new \in TrieSpace
  /\ pc = "start"
  /\ visited = {}
  /\ cntdiff = EmptyMap
  /\ diff = NewPfxFowardDiff
  /\ exc = "none"

\* forward_diff_pyts: diff = PfxFowardDiff(); the two len() calls.
FwdStart ==
  /\ pc = "start"
  /\ diff' = [diff EXCEPT !.cnt_pfx_old = Cardinality(DOMAIN old),
                          !.cnt_pfx_new = Cardinality(DOMAIN new)]
  /\ pc' = "count_old"
  /\ UNCHANGED <<old, new, visited, cntdiff, exc>>
  /\ UNCHANGED notFwd

\* forward_count_diff: one pass of "for pfx_str in old".
CountOld(pfx) ==
  /\ pc = "count_old"
  /\ pfx \in (DOMAIN old) \ visited
  /\ cntdiff' = CountAt(cntdiff, pfx, IF has_key(new, pfx) THEN "MAIN" ELSE "LOSS")
  /\ visited' = visited \cup {pfx}
  /\ UNCHANGED <<old, new, pc, diff, exc>>
  /\ UNCHANGED notFwd

\* forward_count_diff: the first loop has iterated over all of old.
CountOldEnd ==
  /\ pc = "count_old"
  /\ visited = DOMAIN old
  /\ pc' = "count_new"
  /\ visited' = {}
  /\ UNCHANGED <<old, new, cntdiff, diff, exc>>
  /\ UNCHANGED notFwd

\* CountNew without the "continue" for a prefix that old has too.
CountNew_noSkip(pfx) ==
  /\ pc = "count_new"
  /\ pfx \in (DOMAIN new) \ visited
  /\ cntdiff' = CountAt(cntdiff, pfx, "GAIN")
  /\ visited' = visited \cup {pfx}
  /\ UNCHANGED <<old, new, pc, diff, exc>>
  /\ UNCHANGED notFwd

\* forward_count_diff: one pass of "for pfx_str in new".
CountNew(pfx) ==
  /\ pc = "count_new"
  /\ pfx \in (DOMAIN new) \ visited
  /\ cntdiff' = IF has_key(old, pfx) THEN cntdiff ELSE CountAt(cntdiff, pfx, "GAIN")
  /\ visited' = visited \cup {pfx}
  /\ UNCHANGED <<old, new, pc, diff, exc>>
  /\ UNCHANGED notFwd

\* forward_diff_pyts: "for cidr in cntdiff", after forward_count_diff returned.
FoldCounts ==
  /\ pc = "count_new"
  /\ visited = DOMAIN new
  /\ diff' = FoldedCounts(diff, cntdiff)
  /\ pc' = "compare"
  /\ visited' = {}
  /\ UNCHANGED <<old, new, cntdiff, exc>>
  /\ UNCHANGED notFwd

\* forward_diff_pyts: a pass of the second "for pfx_str in old" that ends at
\* "continue", the prefix being no key of new.
CompareSkip(pfx) ==
  /\ pc = "compare"
  /\ pfx \in (DOMAIN old) \ visited
  /\ ~has_key(new, pfx)
  /\ visited' = visited \cup {pfx}
  /\ UNCHANGED <<old, new, pc, cntdiff, diff, exc>>
  /\ UNCHANGED notFwd

\* A trie cut down to the keys in keep.
Restricted(t, keep) == [pfx \in (DOMAIN t) \cap keep |-> t[pfx]]

\* Compare with the characteristics taken from the part of the tries that the
\* loop has reached so far.
Compare_reachedKeysOnly(pfx) ==
  /\ pc = "compare"
  /\ pfx \in (DOMAIN old) \ visited
  /\ has_key(new, pfx)
  /\ ~HasSiblingRaises(pfx)
  /\ diff' = CompareOne(diff, Restricted(old, visited \cup {pfx}),
                        Restricted(new, visited \cup {pfx}), pfx)
  /\ visited' = visited \cup {pfx}
  /\ UNCHANGED <<old, new, pc, cntdiff, exc>>
  /\ UNCHANGED notFwd

\* forward_diff_pyts: a pass of the second loop for a prefix of both tries.
Compare(pfx) ==
  /\ pc = "compare"
  /\ pfx \in (DOMAIN old) \ visited
  /\ has_key(new, pfx)
  /\ ~HasSiblingRaises(pfx)
  /\ diff' = CompareOne(diff, old, new, pfx)
  /\ visited' = visited \cup {pfx}
  /\ UNCHANGED <<old, new, pc, cntdiff, exc>>
  /\ UNCHANGED notFwd

\* forward_diff_pyts: a pass of the second loop in which has_sibling raises;
\* the exception leaves forward_diff_pyts, which returns no diff.
CompareRaise(pfx) ==
  /\ pc = "compare"
  /\ pfx \in (DOMAIN old) \ visited
  /\ has_key(new, pfx)
  /\ HasSiblingRaises(pfx)
  /\ pc' = "raised"
  /\ exc' = "ValueError"
  /\ UNCHANGED <<old, new, visited, cntdiff, diff>>
  /\ UNCHANGED notFwd

\* forward_diff_pyts: return diff
FwdReturn ==
  /\ pc = "compare"
  /\ visited = DOMAIN old
  /\ pc' = "done"
  /\ UNCHANGED <<old, new, visited, cntdiff, diff, exc>>
  /\ UNCHANGED notFwd

FwdNext ==
  \/ FwdStart
  \/ \E pfx \in AllPfx : CountOld(pfx)
  \/ CountOldEnd
  \/ \E pfx \in AllPfx : CountNew(pfx)
  \/ FoldCounts
  \/ \E pfx \in AllPfx : CompareSkip(pfx)
  \/ \E pfx \in AllPfx : Compare(pfx)
  \/ \E pfx \in AllPfx : CompareRaise(pfx)
  \/ FwdReturn

\* ------------------------------------------------------------------------
\* Snapshot.remove_low_vis_pfxs
\* ------------------------------------------------------------------------

\* vis_frac is modelled in quarters, which floats represent exactly:
\* vis_frac = num / FracDen.
FracDen == 4

\* The vis_frac arguments tried, in quarters: from -0.25 to 1.25.
FracNums == (0 - 1) .. (FracDen + 1)

\* PytMeta values; the origin AS plays no part in the filter.
MetaSpace == [origin_asn : {1}, vis_asn : 0 .. MaxVis, vis_nhop : 0 .. MaxVis]

\* Snapshots as load_pfx_tries builds them: no prefix is more visible than
\* max_vis_asn and max_vis_nhop say.
SnapSpace ==
  {sn \in [pyt : UNION {[K -> MetaSpace] :
                          K \in {S \in SUBSET AllPfx : Cardinality(S) <= MaxSnapKeys}},
           version : {4},
           max_vis_asn : 0 .. MaxVis,
           max_vis_nhop : 0 .. MaxVis] :
     \A pfx \in DOMAIN sn.pyt :
       /\ sn.pyt[pfx].vis_asn <= sn.max_vis_asn
       /\ sn.pyt[pfx].vis_nhop <= sn.max_vis_nhop}

\* remove_low_vis_pfxs: the check of vis_frac, 0.0 <= vis_frac < 1.0
VisFracValid(num) == 0 <= num /\ num < FracDen

\* int(max_vis * vis_frac) for a valid vis_frac: the product, truncated.
Thresh(max_vis, num) == (max_vis * num) \div FracDen

\* remove_low_vis_pfxs: the prefixes collected in to_remove.
ToRemove(sn, num) ==
  {pfx \in DOMAIN sn.pyt :
     ~(/\ sn.pyt[pfx].vis_asn >= Thresh(sn.max_vis_asn, num)
       /\ sn.pyt[pfx].vis_nhop >= Thresh(sn.max_vis_nhop, num))}

VisInit ==
  /\ vis_snap \in SnapSpace
  /\ vis_snap0 = vis_snap
  /\ fracNum = 0
  /\ visRet = [state |-> "nocall", exc |-> "none", val |-> 0]

\* vis_snap.remove_low_vis_pfxs(num / FracDen)
RemoveLowVisPfxs(num) ==
  /\ visRet.state = "nocall"
  /\ fracNum' = num
  /\ vis_snap0' = vis_snap
  /\ IF ~VisFracValid(num)
     THEN /\ visRet' = [state |-> "raised", exc |-> "ValueError", val |-> 0]
          /\ vis_snap' = vis_snap
     ELSE LET to_remove == ToRemove(vis_snap, num)
          IN  /\ vis_snap' = [vis_snap EXCEPT
                            !.pyt = [pfx \in (DOMAIN vis_snap.pyt) \ to_remove |-> vis_snap.pyt[pfx]]]
              /\ visRet' = [state |-> "returned", exc |-> "none",
                            val |-> Cardinality(to_remove)]
  /\ UNCHANGED notVis

VisNext == \E num \in FracNums : RemoveLowVisPfxs(num)

\* ------------------------------------------------------------------------
\* Snapshot.as_level_split and as_forward_diff_pyts
\* ------------------------------------------------------------------------

\* The PytMeta of a prefix that AS asn originates.
OriginMeta(asn) == [origin_asn |-> asn, vis_asn |-> 1, vis_nhop |-> 1]

\* The Snapshot whose trie holds the keys of origin, each with its origin AS.
SnapshotOf(origin) ==
  [pyt |-> [pfx \in DOMAIN origin |-> OriginMeta(origin[pfx])],
   version |-> 4, max_vis_asn |-> 1, max_vis_nhop |-> 1]

\* The Snapshots with the keys K.
SnapshotsOn(K) == {SnapshotOf(origin) : origin \in [K -> Asns]}

\* The origin ASes of a Snapshot's prefixes.
OriginsOf(sn) == {sn.pyt[pfx].origin_asn : pfx \in DOMAIN sn.pyt}

\* Snapshot.as_level_split
as_level_split(sn) ==
  [asn \in OriginsOf(sn) |->
     [pfx \in {q \in DOMAIN sn.pyt : sn.pyt[q].origin_asn = asn} |-> ""]]

\* AsLevelFowardDiff: the field that follows a characteristic of ClassTracker.
AsField(ch) ==
  CASE ch = "has_no_direct_msp_coverage"      -> "asns_pfx_no_direct_msp_coverage"
    [] ch = "has_partial_direct_msp_coverage" -> "asns_pfx_partial_direct_msp_coverage"
    [] ch = "has_full_direct_msp_coverage"    -> "asns_pfx_full_direct_msp_coverage"
    [] ch = "has_no_msp_coverage"             -> "asn_pfx_no_msp_coverage"
    [] ch = "has_partial_msp_coverage"        -> "asn_pfx_partial_msp_coverage"
    [] ch = "has_full_msp_coverage"           -> "asn_pfx_full_msp_coverage"
    [] ch = "has_sibling"                     -> "asn_pfx_sibling"
    [] ch = "has_direct_less_specific"        -> "asn_pfx_direct_less_specific"
    [] ch = "has_less_specific"               -> "asn_pfx_less_specific"

\* The fields of AsLevelFowardDiff.
AsFields == {"asns_observe", "asns_pfx_total"} \cup {AsField(ch) : ch \in Chars}

\* AsLevelFowardDiff()
NewAsLevelFowardDiff == [f \in AsFields |-> NewClassDiff]

RECURSIVE ObserveOldOver(_, _, _)
\* as_forward_diff_pyts: the first "for asn in split_old", over the ASes todo.
ObserveOldOver(cd, sn, todo) ==
  IF todo = {} THEN cd
  ELSE LET asn == CHOOSE a \in todo : TRUE
       IN  ObserveOldOver(count_change(cd, IF asn \in DOMAIN sn THEN "MAIN" ELSE "LOSS"),
                          sn, todo \ {asn})

RECURSIVE ObserveNewOver_noCheck(_, _, _)
\* ObserveNewOver without the test "asn not in split_old".
ObserveNewOver_noCheck(cd, so, todo) ==
  IF todo = {} THEN cd
  ELSE LET asn == CHOOSE a \in todo : TRUE
       IN  ObserveNewOver_noCheck(count_change(cd, "GAIN"), so, todo \ {asn})

RECURSIVE ObserveNewOver(_, _, _)
\* as_forward_diff_pyts: "for asn in split_new", over the ASes todo.
ObserveNewOver(cd, so, todo) ==
  IF todo = {} THEN cd
  ELSE LET asn == CHOOSE a \in todo : TRUE
       IN  ObserveNewOver(IF asn \notin DOMAIN so THEN count_change(cd, "GAIN") ELSE cd,
                          so, todo \ {asn})

\* as_forward_diff_pyts: the tag counted in asns_pfx_total for one AS.
PfxTotalTag(fd) ==
  IF fd.cnt_pfx_old > fd.cnt_pfx_new THEN "LOSS"
  ELSE IF fd.cnt_pfx_old = fd.cnt_pfx_new THEN "MAIN"
  ELSE "GAIN"

\* AsCountChar with the three tests chained by elif.
AsCountChar_elif(cd, tot) ==
  IF tot.gain > 0 THEN count_change(cd, "GAIN")
  ELSE IF tot.main > 0 THEN count_change(cd, "MAIN")
  ELSE IF tot.loss > 0 THEN count_change(cd, "LOSS")
  ELSE cd

\* as_forward_diff_pyts: the three "if ... > 0: count_change" of one
\* characteristic, on the AS-level ClassDiff cd, for the totals tot of one AS.
AsCountChar(cd, tot) ==
  LET g == IF tot.gain > 0 THEN count_change(cd, "GAIN") ELSE cd
      m == IF tot.main > 0 THEN count_change(g, "MAIN") ELSE g
  IN  IF tot.loss > 0 THEN count_change(m, "LOSS") ELSE m

\* as_forward_diff_pyts: the body of the third loop for one maintained AS
\* whose forward diff is fd.
AsCountOne(d, fd) ==
  [f \in AsFields |->
     IF f = "asns_observe" THEN d[f]
     ELSE IF f = "asns_pfx_total" THEN count_change(d[f], PfxTotalTag(fd))
     ELSE LET ch == CHOOSE c \in Chars : AsField(c) = f
          IN  AsCountChar(d[f], fd.class_totals[ch])]

\* No snapshot: an empty trie.
NoSnapshot == SnapshotOf(EmptyMap)

AsInit ==
  /\ \E U \in {S \in SUBSET AllPfx : Cardinality(S) <= MaxAsKeys} :
       \E Ko \in SUBSET U : \E Both \in SUBSET Ko :
         /\ snap_old \in SnapshotsOn(Ko)
         /\ snap_new \in SnapshotsOn((U \ Ko) \cup Both)
  /\ split_old = EmptyMap
  /\ split_new = EmptyMap
  /\ as_pc = "start"
  /\ as_visited = {}
  /\ as_diff = NewAsLevelFowardDiff
  /\ as_exc = "none"

\* as_forward_diff_pyts: the two splits and the two loops that fill
\* asns_observe.
AsObserve ==
  /\ as_pc = "start"
  /\ LET so == as_level_split(snap_old)
         sn == as_level_split(snap_new)
     IN  /\ split_old' = so
         /\ split_new' = sn
         /\ as_diff' = [as_diff EXCEPT !.asns_observe =
               ObserveNewOver(ObserveOldOver(@, sn, DOMAIN so), so, DOMAIN sn)]
  /\ as_pc' = "per_as"
  /\ UNCHANGED <<snap_old, snap_new, as_visited, as_exc>>
  /\ UNCHANGED notAs

\* as_forward_diff_pyts: a pass of the third loop that ends at "continue",
\* the AS having no prefix in the newer snapshot.
AsSkip(asn) ==
  /\ as_pc = "per_as"
  /\ asn \in (DOMAIN split_old) \ as_visited
  /\ asn \notin DOMAIN split_new
  /\ as_visited' = as_visited \cup {asn}
  /\ UNCHANGED <<snap_old, snap_new, split_old, split_new, as_pc, as_diff, as_exc>>
  /\ UNCHANGED notAs

\* as_forward_diff_pyts: a pass of the third loop for a maintained AS.
AsDiffOne(asn) ==
  /\ as_pc = "per_as"
  /\ asn \in (DOMAIN split_old) \ as_visited
  /\ asn \in DOMAIN split_new
  /\ ~ForwardDiffRaises(split_old[asn], split_new[asn])
  /\ as_diff' = AsCountOne(as_diff, forward_diff_pyts(split_old[asn], split_new[asn]))
  /\ as_visited' = as_visited \cup {asn}
  /\ UNCHANGED <<snap_old, snap_new, split_old, split_new, as_pc, as_exc>>
  /\ UNCHANGED notAs

\* as_forward_diff_pyts: a pass of the third loop in which forward_diff_pyts
\* raises; the exception leaves as_forward_diff_pyts, which returns no diff.
AsDiffRaise(asn) ==
  /\ as_pc = "per_as"
  /\ asn \in (DOMAIN split_old) \ as_visited
  /\ asn \in DOMAIN split_new
  /\ ForwardDiffRaises(split_old[asn], split_new[asn])
  /\ as_pc' = "raised"
  /\ as_exc' = "ValueError"
  /\ UNCHANGED <<snap_old, snap_new, split_old, split_new, as_visited, as_diff>>
  /\ UNCHANGED notAs

\* as_forward_diff_pyts: return diff
AsReturn ==
  /\ as_pc = "per_as"
  /\ as_visited = DOMAIN split_old
  /\ as_pc' = "done"
  /\ UNCHANGED <<snap_old, snap_new, split_old, split_new, as_visited, as_diff, as_exc>>
  /\ UNCHANGED notAs

AsNext ==
  \/ AsObserve
  \/ \E asn \in Asns : AsSkip(asn)
  \/ \E asn \in Asns : AsDiffOne(asn)
  \/ \E asn \in Asns : AsDiffRaise(asn)
  \/ AsReturn

\* ------------------------------------------------------------------------
\* Specifications: each runs one part of the program and leaves the state of
\* the other parts as constructed.
\* ------------------------------------------------------------------------

ClassifyParked == pyt = EmptyMap /\ call = NoCall

FwdParked ==
  /\ old = EmptyMap /\ new = EmptyMap /\ pc = "idle" /\ visited = {}
  /\ cntdiff = EmptyMap /\ diff = NewPfxFowardDiff /\ exc = "none"

VisParked ==
  /\ vis_snap = [pyt |-> EmptyMap, version |-> 4, max_vis_asn |-> 0, max_vis_nhop |-> 0]
  /\ vis_snap0 = vis_snap
  /\ fracNum = 0
  /\ visRet = [state |-> "idle", exc |-> "none", val |-> 0]

AsParked ==
  /\ snap_old = NoSnapshot /\ snap_new = NoSnapshot
  /\ split_old = EmptyMap /\ split_new = EmptyMap
  /\ as_pc = "idle" /\ as_visited = {}
  /\ as_diff = NewAsLevelFowardDiff /\ as_exc = "none"

\* BurnRateCalculator alone.
InitBurn == BurnInit /\ ClassifyParked /\ FwdParked /\ VisParked /\ CdInit /\ AsParked

SpecBurn == InitBurn /\ [][BurnNext]_vars

\* The classifier helpers alone.
InitClassify == ClassifyInit /\ BurnInit /\ FwdParked /\ VisParked /\ CdInit /\ AsParked

SpecClassify == InitClassify /\ [][ClassifyNext]_vars

\* forward_diff_pyts alone.
InitFwd == FwdInit /\ BurnInit /\ ClassifyParked /\ VisParked /\ CdInit /\ AsParked

SpecFwd == InitFwd /\ [][FwdNext]_vars

\* Snapshot.remove_low_vis_pfxs alone.
InitVis == VisInit /\ BurnInit /\ ClassifyParked /\ FwdParked /\ CdInit /\ AsParked

SpecVis == InitVis /\ [][VisNext]_vars

\* ClassDiff.count_change and matches_to_difftype alone.
InitCd == CdInit /\ BurnInit /\ ClassifyParked /\ FwdParked /\ VisParked /\ AsParked

SpecCd == InitCd /\ [][CdNext]_vars

\* as_forward_diff_pyts alone.
InitAs == AsInit /\ BurnInit /\ ClassifyParked /\ FwdParked /\ VisParked /\ CdInit

SpecAs == InitAs /\ [][AsNext]_vars

\* ------------------------------------------------------------------------
\* Properties of BurnRateCalculator (checked under SpecBurn).
\* ------------------------------------------------------------------------

Abs(x) == IF x < 0 THEN 0 - x ELSE x

\* The calculator was built with a window size the contract allows.
ValidTracker == ctor = "ok" /\ k >= 1

\* The positions in hist of the last k snapshots (k >= 1, Len(hist) >= k).
Window == (Len(hist) - k + 1) .. Len(hist)

\* How often group g's collection in the i-th snapshot advanced lists x.
HistOccurrences(i, g, x) ==
  IF g \in DOMAIN hist[i] /\ x \in DOMAIN hist[i][g] THEN hist[i][g][x] ELSE 0

\* The keys of group g in the i-th snapshot advanced.
HistKeys(i, g) == IF g \in DOMAIN hist[i] THEN DOMAIN hist[i][g] ELSE {}

\* The size of group g's collection in the i-th snapshot advanced; a
\* snapshot without g counts as 0.
HistSize(i, g) ==
  SumOver([x \in HistKeys(i, g) |-> HistOccurrences(i, g, x)], HistKeys(i, g))

\* Every collection advanced so far lists each of its keys once.
EachKeyListedOnce ==
  \A i \in 1 .. Len(hist) : \A g \in DOMAIN hist[i] :
    \A x \in DOMAIN hist[i][g] : hist[i][g][x] = 1

\* The distinct keys of group g in the last k snapshots.
WindowKeys(g) == UNION {HistKeys(i, g) : i \in Window}

\* C1: with k >= 1, the n-th call to advance returns None for every n < k
\* and a result mapping for every n >= k.
Thm_C1_NoneUntilWindowFull ==
  ValidTracker =>
    \A n \in 1 .. Len(rets) :
      /\ (n < k => rets[n] = "None")
      /\ (n >= k => rets[n] = "result")

\* C1 witness: a window of 2 after three calls (one None, two results).
Wit_C1_ThreeCallsWindowTwo ==
  /\ ValidTracker /\ k = 2 /\ Len(rets) = 3
  /\ rets[1] = "None" /\ rets[3] = "result"

\* C2: every per-group result reports min, mean and max over exactly the k
\* sizes of that group in the last k snapshots (absent = 0); the mean is the
\* sum of the sizes divided by k, rounded to a nearest integer.
Thm_C2_MinMeanMaxOverWindow ==
  (ValidTracker /\ retKind = "result") =>
    \A g \in DOMAIN retRes :
      LET sizes == [i \in Window |-> HistSize(i, g)]
          sum   == SumOver(sizes, Window)
      IN  /\ Cardinality(Window) = k
          /\ retRes[g].pfx_cnt_min = Min({sizes[i] : i \in Window})
          /\ retRes[g].pfx_cnt_max = Max({sizes[i] : i \in Window})
          /\ 2 * Abs(retRes[g].pfx_cnt_mean * k - sum) <= k

\* C2 witness: a result for a group that the newest snapshot lacks, with
\* sizes that do not divide evenly by k.
Wit_C2_AbsentCountsZero ==
  /\ ValidTracker /\ k = 3 /\ total = 3 /\ retKind = "result"
  /\ \E g \in DOMAIN retRes :
       /\ g \notin DOMAIN hist[3]
       /\ retRes[g].pfx_cnt_min = 0
       /\ retRes[g].pfx_cnt_max = 2
       /\ retRes[g].pfx_cnt_mean = 1
       /\ HistSize(1, g) + HistSize(2, g) = 2

\* C3: uniq is the number of distinct keys of the group in the last k
\* snapshots; keys seen only in older snapshots are not counted.
Thm_C3_UniqCountsWindowOnly ==
  (ValidTracker /\ retKind = "result") =>
    \A g \in DOMAIN retRes :
      retRes[g].pfx_cnt_uniq = Cardinality(WindowKeys(g))

\* C3 witness: after a rollover, a key of the evicted snapshot is in no
\* snapshot of the window while the group is still reported.
Wit_C3_EvictedKeyForgotten ==
  /\ ValidTracker /\ k = 2 /\ total = 3 /\ retKind = "result"
  /\ \E g \in DOMAIN retRes :
       /\ \E x \in HistKeys(1, g) : x \notin WindowKeys(g)
       /\ retRes[g].pfx_cnt_uniq = 1

\* C4: once the step count has reached k, the returned mapping has an entry
\* for every group that is a key of at least one of the last k snapshots.
Cex_C4_EveryWindowGroupReported ==
  (ValidTracker /\ retKind = "result") =>
    \A i \in Window : DOMAIN hist[i] \subseteq DOMAIN retRes

\* C5: constructing with any k <= 0 fails with ValueError.
Cex_C5_NonPositiveKRejected ==
  (ctor # "none" /\ k <= 0) => ctor = "ValueError"

\* C6: every per-group result satisfies min <= mean <= max and uniq >= max,
\* for any input sequence in which each group's collection lists each key at
\* most once.
Thm_C6_ResultOrdering ==
  (ValidTracker /\ retKind = "result" /\ EachKeyListedOnce) =>
    \A g \in DOMAIN retRes :
      /\ retRes[g].pfx_cnt_min <= retRes[g].pfx_cnt_mean
      /\ retRes[g].pfx_cnt_mean <= retRes[g].pfx_cnt_max
      /\ retRes[g].pfx_cnt_uniq >= retRes[g].pfx_cnt_max

\* C6 witness: a result with min < mean and uniq > max.
Wit_C6_StrictOrdering ==
  /\ ValidTracker /\ retKind = "result" /\ EachKeyListedOnce
  /\ \E g \in DOMAIN retRes :
       /\ retRes[g].pfx_cnt_min < retRes[g].pfx_cnt_mean
       /\ retRes[g].pfx_cnt_uniq > retRes[g].pfx_cnt_max

\* The positions in hist of the snapshots the calculator still buffers: the
\* last min(n, k) of the n advanced.
Buffered == (IF Len(hist) > k THEN Len(hist) - k + 1 ELSE 1) .. Len(hist)

\* Every key a snapshot may list.
AllKeys == UNION {GroupKeys(g) : g \in Groups}

\* Does the occurrence counter of group g have an entry for x?
HasCounter(g, x) == g \in DOMAIN pfx_counter /\ x \in DOMAIN pfx_counter[g]

\* The occurrence counter of x in g; no entry counts as 0.
CounterOf(g, x) == IF HasCounter(g, x) THEN pfx_counter[g][x] ELSE 0

\* The buffered snapshots whose collection for g contains x.
BufferedWith(g, x) == {i \in Buffered : x \in HistKeys(i, g)}

\* C17 as stated: after every completed advance, for every group g and key
\* x, the occurrence counter of x in g is the number of buffered snapshots
\* whose collection for g contains x; no stored counter is zero or negative,
\* and a key in none of the buffered snapshots has no counter entry.
Cex_C17_CounterIsSnapshotCount ==
  (ValidTracker /\ Len(hist) >= 1) =>
    \A g \in Groups : \A x \in AllKeys :
      /\ CounterOf(g, x) = Cardinality(BufferedWith(g, x))
      /\ HasCounter(g, x) => pfx_counter[g][x] > 0
      /\ BufferedWith(g, x) = {} => ~HasCounter(g, x)

\* C17 as amended: after every completed advance, for every group g and key
\* x, the occurrence counter of x in g is the number of times the collections
\* for g of the buffered snapshots list x (the number of buffered snapshots
\* that contain x when every collection lists each key at most once); no
\* stored counter is zero or negative, and a key in none of the buffered
\* snapshots has no counter entry.
Thm_C17_CounterIsListingCount ==
  (ValidTracker /\ Len(hist) >= 1) =>
    \A g \in Groups : \A x \in AllKeys :
      /\ CounterOf(g, x) =
           SumOver([i \in Buffered |-> HistOccurrences(i, g, x)], Buffered)
      /\ EachKeyListedOnce => CounterOf(g, x) = Cardinality(BufferedWith(g, x))
      /\ HasCounter(g, x) => pfx_counter[g][x] > 0
      /\ BufferedWith(g, x) = {} => ~HasCounter(g, x)

\* C17 witness: after a rollover with a window of 2, a key listed twice by
\* one buffered snapshot and once by the other has counter 3, and a key of
\* the evicted snapshot has no entry.
Wit_C17_RepeatedKeyAfterRollover ==
  /\ ValidTracker /\ k = 2 /\ total = 3
  /\ \E g \in Groups : \E x \in AllKeys : \E y \in AllKeys \ {x} :
       /\ HistOccurrences(2, g, x) = 2
       /\ HistOccurrences(3, g, x) = 1
       /\ CounterOf(g, x) = 3
       /\ y \in HistKeys(1, g)
       /\ ~HasCounter(g, y)

\* What a second calculator with the same k returns from its latest advance
\* when the last k snapshots of hist are all it was advanced with.
ResultOfWindowAlone ==
  AdvanceAll(NewCalculator(k), SubSeq(hist, Len(hist) - k + 1, Len(hist)), 1).retRes

\* C19: two calculators with the same k >= 1 that have each received at
\* least k advances and whose last k snapshots are equal return equal result
\* mappings from their latest advance, whatever was advanced before the
\* window; so the mapping returned equals the one of a calculator that was
\* advanced with the window only.
Cex_C19_ResultDependsOnWindowOnly ==
  (ValidTracker /\ retKind = "result") => retRes = ResultOfWindowAlone

\* ------------------------------------------------------------------------
\* Properties of remove_low_vis_pfxs (checked under SpecVis).
\* ------------------------------------------------------------------------

\* The prefix was, before the call, less visible than the fraction
\* fracNum / FracDen of one of the two maxima.
BelowFraction(pfx) ==
  \/ vis_snap0.pyt[pfx].vis_asn * FracDen < fracNum * vis_snap0.max_vis_asn
  \/ vis_snap0.pyt[pfx].vis_nhop * FracDen < fracNum * vis_snap0.max_vis_nhop

\* C7: remove_low_vis_pfxs(frac) with 0 <= frac < 1 removes exactly the
\* prefixes whose vis_asn is below frac x max_vis_asn or whose vis_nhop is
\* below frac x max_vis_nhop, keeps every other prefix and returns the number
\* of prefixes removed.
Cex_C7_RemovesExactlyBelowFraction ==
  visRet.state = "returned" =>
    /\ DOMAIN vis_snap.pyt = {pfx \in DOMAIN vis_snap0.pyt : ~BelowFraction(pfx)}
    /\ \A pfx \in DOMAIN vis_snap.pyt : vis_snap.pyt[pfx] = vis_snap0.pyt[pfx]
    /\ visRet.val = Cardinality({pfx \in DOMAIN vis_snap0.pyt : BelowFraction(pfx)})

\* ------------------------------------------------------------------------
\* Properties of the classifier helpers (checked under SpecClassify).
\* ------------------------------------------------------------------------

\* How many of the three direct-MSP-coverage predicates hold for a count.
DirHolding(cnt) ==
  Cardinality({i \in 1 .. 3 : \/ (i = 1 /\ DirNo(cnt))
                              \/ (i = 2 /\ DirPartial(cnt))
                              \/ (i = 3 /\ DirFull(cnt))})

\* How many of the three address-coverage predicates hold for a count.
CovHolding(cov, full_cov) ==
  Cardinality({i \in 1 .. 3 : \/ (i = 1 /\ CovNo(cov, full_cov))
                              \/ (i = 2 /\ CovPartial(cov, full_cov))
                              \/ (i = 3 /\ CovFull(cov, full_cov))})

\* C8 as stated: for every trie and every prefix exactly one direct-MSP
\* predicate and exactly one address-coverage predicate holds, and the covered
\* addresses never exceed the prefix's address count.
Cex_C8_ExactlyOneForEveryPrefix ==
  /\ call.fn = "count_direct_msps" => DirHolding(call.val) = 1
  /\ call.fn = "count_msp_covered_addresses" =>
       /\ call.exc = "none"
       /\ CovHolding(call.val, num_addresses(call.pfx)) = 1
       /\ call.val <= num_addresses(call.pfx)

\* C8 as amended: exactly one direct-MSP predicate holds for every trie and
\* every prefix; exactly one address-coverage predicate holds, and the covered
\* addresses do not exceed the prefix's address count, for every trie and
\* every prefix that is a key of the trie (for any other prefix the count
\* raises KeyError).
Thm_C8_ExactlyOneForKeys ==
  /\ call.fn = "count_direct_msps" => DirHolding(call.val) = 1
  /\ call.fn = "count_msp_covered_addresses" =>
       /\ call.exc = "none" <=> call.pfx \in DOMAIN pyt
       /\ call.exc = "none" =>
            /\ CovHolding(call.val, num_addresses(call.pfx)) = 1
            /\ call.val <= num_addresses(call.pfx)

\* C8 witness: a key with nested more-specifics whose address space is fully
\* covered.
Wit_C8_FullCoverWithNested ==
  /\ call.fn = "count_msp_covered_addresses" /\ call.exc = "none"
  /\ call.pfx.len = 0
  /\ Cardinality(children(pyt, call.pfx)) >= 3
  /\ CovFull(call.val, num_addresses(call.pfx))

\* The keys strictly more specific than pfx with no other key in between.
ImmediateMsps(t, pfx) ==
  {c \in DOMAIN t :
     /\ MoreSpecific(c, pfx)
     /\ ~\E q \in DOMAIN t : MoreSpecific(c, q) /\ MoreSpecific(q, pfx)}

\* The addresses of pfx that lie in some key more specific than pfx.
CoveredAddrs(t, pfx) ==
  {a \in AddrsOf(pfx) : \E c \in DOMAIN t : MoreSpecific(c, pfx) /\ a \in AddrsOf(c)}

\* The prefix of length l that contains address a.
Pfx(a, l) == [addr |-> a, len |-> l]

\* C9: count_msp_covered_addresses(trie, pfx) is the sum of
\* 2^(max_bits - len(c)) over the keys c more specific than pfx whose nearest
\* covering key is pfx; nested keys add nothing, so the sum is the number of
\* addresses of pfx covered by more-specific keys. Both halves give the full
\* count, one half gives half, a half and a quarter of the other half give
\* three quarters, an unrelated key only gives 0.
Thm_C9_CoveredAddressesSum ==
  (call.fn = "count_msp_covered_addresses" /\ call.exc = "none") =>
    LET msps == ImmediateMsps(pyt, call.pfx)
        top  == Pfx(0, 0)
        half == Pow2(MaxBits - 1)
    IN  /\ call.val = SumOver([c \in msps |-> Pow2(MaxBits - c.len)], msps)
        /\ call.val = Cardinality(CoveredAddrs(pyt, call.pfx))
        /\ (call.pfx = top /\ DOMAIN pyt = {top, Pfx(0, 1), Pfx(half, 1)})
             => call.val = 2 * half
        /\ (call.pfx = top /\ DOMAIN pyt = {top, Pfx(0, 1)})
             => call.val = half
        /\ (call.pfx = top /\ DOMAIN pyt = {top, Pfx(0, 1), Pfx(half, 2)})
             => 2 * call.val = 3 * half
        /\ (call.pfx = Pfx(0, 1) /\ DOMAIN pyt = {Pfx(0, 1), Pfx(half, 2)})
             => call.val = 0

\* C9 witness: a key with one half, a key nested in that half, and a quarter
\* of the other half.
Wit_C9_NestedNotCounted ==
  /\ call.fn = "count_msp_covered_addresses" /\ call.exc = "none"
  /\ call.pfx = Pfx(0, 0)
  /\ DOMAIN pyt = {Pfx(0, 0), Pfx(0, 1), Pfx(0, 2), Pfx(Pow2(MaxBits - 1), 2)}
  /\ 2 * call.val = 3 * Pow2(MaxBits - 1)

\* ------------------------------------------------------------------------
\* Properties of forward_diff_pyts (checked under SpecFwd).
\* ------------------------------------------------------------------------

\* The prefixes that are keys of both tries.
CommonKeys == (DOMAIN old) \cap (DOMAIN new)

\* gain + loss + main of a ClassDiff
ClassDiffSum(cd) == cd.gain + cd.loss + cd.main

\* C10: after forward_diff_pyts(old, new), for each of the nine
\* characteristic ClassDiffs of class_totals, gain + loss + main is the number
\* of prefixes that are keys of both tries, which is class_totals.cnt_pfx.main.
Thm_C10_CharacteristicSums ==
  pc = "done" =>
    /\ diff.class_totals.cnt_pfx.main = Cardinality(CommonKeys)
    /\ \A c \in Chars :
         ClassDiffSum(diff.class_totals[c]) = Cardinality(CommonKeys)

\* C10 witness: a finished diff of tries with three common prefixes in which
\* one characteristic was gained for a prefix and lost for another.
Wit_C10_MixedOutcomes ==
  /\ pc = "done"
  /\ Cardinality(CommonKeys) = 3
  /\ \E c \in Chars :
       /\ diff.class_totals[c].gain = 1
       /\ diff.class_totals[c].loss = 1
       /\ diff.class_totals[c].main = 1

\* The keys of trie t that have length L.
KeysOfLen(t, L) == {pfx \in DOMAIN t : pfx.len = L}

\* The prefix lengths of the address family.
Lengths == 0 .. MaxBits

\* classtracker_by_cidr[L].cnt_pfx, as reading the defaultdict gives it.
CntPfxAt(L) == DefaultGet(diff.classtracker_by_cidr, L, NewClassTracker).cnt_pfx

\* C11: after forward_diff_pyts(old, new), for every prefix length L,
\* classtracker_by_cidr[L].cnt_pfx has main = the keys of length L in both
\* tries, loss = those only in old, gain = those only in new;
\* class_totals.cnt_pfx is the field-wise sum over the lengths, so that
\* main + loss = cnt_pfx_old and main + gain = cnt_pfx_new.
Thm_C11_PresenceTallies ==
  pc = "done" =>
    /\ \A L \in Lengths :
         /\ CntPfxAt(L).main = Cardinality(KeysOfLen(old, L) \cap KeysOfLen(new, L))
         /\ CntPfxAt(L).loss = Cardinality(KeysOfLen(old, L) \ KeysOfLen(new, L))
         /\ CntPfxAt(L).gain = Cardinality(KeysOfLen(new, L) \ KeysOfLen(old, L))
    /\ diff.class_totals.cnt_pfx =
         [gain |-> SumOver([L \in Lengths |-> CntPfxAt(L).gain], Lengths),
          loss |-> SumOver([L \in Lengths |-> CntPfxAt(L).loss], Lengths),
          main |-> SumOver([L \in Lengths |-> CntPfxAt(L).main], Lengths)]
    /\ diff.class_totals.cnt_pfx.main + diff.class_totals.cnt_pfx.loss = diff.cnt_pfx_old
    /\ diff.class_totals.cnt_pfx.main + diff.class_totals.cnt_pfx.gain = diff.cnt_pfx_new
    /\ diff.cnt_pfx_old = Cardinality(DOMAIN old)
    /\ diff.cnt_pfx_new = Cardinality(DOMAIN new)

\* C11 witness: a finished diff in which one length has a maintained, a lost
\* and a gained prefix, another length is tallied too, and a third has no
\* entry at all.
Wit_C11_AllThreeAtOneLength ==
  /\ pc = "done"
  /\ \E L \in Lengths :
       /\ CntPfxAt(L).main = 1 /\ CntPfxAt(L).loss = 1 /\ CntPfxAt(L).gain = 1
       /\ \E M \in Lengths \ {L} : CntPfxAt(M).gain = 1
  /\ \E L \in Lengths : L \notin DOMAIN diff.classtracker_by_cidr

\* ------------------------------------------------------------------------
\* Properties of ClassDiff and matches_to_difftype (checked under SpecCd).
\* ------------------------------------------------------------------------

\* C12: matches_to_difftype is total over the four boolean pairs: MAIN when
\* the two flags are equal, LOSS for (true, false), GAIN for (false, true),
\* and never any other value.
Thm_C12_MatchesToDifftypeTable ==
  cdcall.fn = "matches_to_difftype" =>
    /\ cdcall.exc = "none"
    /\ cdcall.ret \in DiffTypes
    /\ (cdcall.old_match /\ cdcall.new_match) => cdcall.ret = "MAIN"
    /\ (~cdcall.old_match /\ ~cdcall.new_match) => cdcall.ret = "MAIN"
    /\ (cdcall.old_match /\ ~cdcall.new_match) => cdcall.ret = "LOSS"
    /\ (~cdcall.old_match /\ cdcall.new_match) => cdcall.ret = "GAIN"

\* C12 witness: the call for (false, true) has returned GAIN.
Wit_C12_GainForFalseTrue ==
  /\ cdcall.fn = "matches_to_difftype"
  /\ ~cdcall.old_match /\ cdcall.new_match
  /\ cdcall.ret = "GAIN"

\* The field of a ClassDiff that a DiffType names.
FieldOf(t) == IF t = "GAIN" THEN "gain" ELSE IF t = "LOSS" THEN "loss" ELSE "main"

\* C13: count_change(t) with t one of GAIN, LOSS, MAIN adds 1 to exactly the
\* field t names and leaves the other two unchanged; with any other tag it
\* raises an error and changes no field.
Thm_C13_CountChangeFrame ==
  cdcall.fn = "count_change" =>
    IF cdcall.tag \in DiffTypes
    THEN /\ cdcall.exc = "none"
         /\ \A f \in {"gain", "loss", "main"} :
              cdiff[f] = cdcall.before[f] + (IF f = FieldOf(cdcall.tag) THEN 1 ELSE 0)
    ELSE /\ cdcall.exc = "ValueError"
         /\ cdiff = cdcall.before

\* C13 witness: count_change with a tag that is no DiffType has raised on an
\* object whose three fields had been counted up before.
Wit_C13_InvalidTagAfterCounts ==
  /\ cdcall.fn = "count_change"
  /\ cdcall.tag = InvalidTag
  /\ cdcall.exc = "ValueError"
  /\ cdcall.before = [gain |-> 1, loss |-> 2, main |-> 1]
  /\ cdiff = cdcall.before

\* ------------------------------------------------------------------------
\* Properties of sibling detection.
\* ------------------------------------------------------------------------

\* The prefixes of p's length that share p's covering prefix one bit shorter
\* and are not p: for a length of 1 or more, p's one sibling.
SiblingsOf(p) ==
  {q \in AllPfx :
     /\ q.len = p.len
     /\ q # p
     /\ q.addr \div (2 * num_addresses(p)) = p.addr \div (2 * num_addresses(p))}

\* What has_sibling_in_pyt looks up for p.
SibOf(p) == [addr |-> SibBase(p), len |-> p.len]

\* C16: for a prefix p of length >= 1 the sibling that has_sibling_in_pyt
\* looks up is p with bit number len(p) flipped, and p is the sibling of its
\* sibling; so for a trie that contains both, has_sibling_in_pyt is true for
\* both of them (checked under SpecClassify).
Thm_C16_SiblingSymmetric ==
  (call.fn = "has_sibling_in_pyt" /\ call.pfx.len >= 1) =>
    /\ call.exc = "none"
    /\ SiblingsOf(call.pfx) = {SibOf(call.pfx)}
    /\ SibOf(SibOf(call.pfx)) = call.pfx
    /\ call.val = (\E q \in SiblingsOf(call.pfx) : q \in DOMAIN pyt)
    /\ (call.pfx \in DOMAIN pyt /\ call.val) =>
         /\ ~HasSiblingRaises(SibOf(call.pfx))
         /\ has_sibling_in_pyt(pyt, SibOf(call.pfx))

\* C16 witness: the call for the upper one of two sibling keys of full
\* length has returned true.
Wit_C16_BothSiblingsPresent ==
  /\ call.fn = "has_sibling_in_pyt" /\ call.exc = "none"
  /\ call.pfx = Pfx(1, MaxBits)
  /\ Pfx(0, MaxBits) \in DOMAIN pyt /\ Pfx(1, MaxBits) \in DOMAIN pyt
  /\ call.val

\* C20: has_sibling_in_pyt returns without raising for every prefix length,
\* so forward_diff_pyts completes for any two tries, also for two that both
\* contain the zero-length prefix (checked under SpecFwd).
Cex_C20_ForwardDiffNeverRaises ==
  pc # "raised" /\ exc = "none"

\* ------------------------------------------------------------------------
\* Order independence of forward_diff_pyts (checked under SpecFwd, whose
\* loops take the keys in every order).
\* ------------------------------------------------------------------------

\* C18: forward_diff_pyts(old, new) yields the same PfxFowardDiff (counts,
\* per-length trackers and totals) for every order in which the keys of the
\* two tries are iterated: whatever the order, each loop has, after the keys
\* in visited, what one fixed order gives for these keys, and the diff
\* returned is the one the fixed order returns.
Thm_C18_OrderIndependent ==
  /\ pc = "count_old" => cntdiff = CountOldOver(EmptyMap, new, visited)
  /\ pc = "count_new" =>
       cntdiff = CountNewOver(CountOldOver(EmptyMap, new, DOMAIN old), old, visited)
  /\ pc = "compare" => diff = CompareOver(CountedDiff(old, new), old, new, visited)
  /\ pc = "done" => diff = forward_diff_pyts(old, new)
  /\ pc \in {"raised", "done"} => ((pc = "raised") <=> ForwardDiffRaises(old, new))

\* C18 witness: the second loop has passed two keys of both tries that
\* differ in a characteristic, but not the key the fixed order takes first.
Wit_C18_OtherOrderTaken ==
  /\ pc = "compare"
  /\ DOMAIN old # {}
  /\ LET first == CHOOSE p \in DOMAIN old : TRUE
     IN  /\ first \in CommonKeys \ visited
         /\ Cardinality(visited \cap CommonKeys) = 2
         /\ \E ch \in Chars : diff.class_totals[ch].gain = 1 /\ diff.class_totals[ch].loss = 1

\* ------------------------------------------------------------------------
\* Properties of as_forward_diff_pyts (checked under SpecAs).
\* ------------------------------------------------------------------------

\* The ASes with a prefix in both snapshots.
MaintainedAsns == OriginsOf(snap_old) \cap OriginsOf(snap_new)

\* The prefixes of a snapshot that AS asn originates.
PfxsOfAs(sn, asn) == {pfx \in DOMAIN sn.pyt : sn.pyt[pfx].origin_asn = asn}

\* The ASes present in both snapshots whose per-AS forward diff has
\* class_totals.ch.f > 0, f being "gain", "loss" or "main".
AsnsWithPositive(ch, f) ==
  {asn \in MaintainedAsns :
     forward_diff_pyts(split_old[asn], split_new[asn]).class_totals[ch][f] > 0}

\* The ASes present in both snapshots with a prefix, in both snapshots theirs,
\* for which the characteristic ch has the DiffType t within the AS's tries.
AsnsWithTag(ch, t) ==
  {asn \in MaintainedAsns :
     \E pfx \in PfxsOfAs(snap_old, asn) \cap PfxsOfAs(snap_new, asn) :
       CalcDiffTypes(split_old[asn], split_new[asn], pfx)[ch] = t}

\* C14: as_forward_diff_pyts sets the AS-level ClassDiff of each
\* characteristic X so that its gain (loss, main) is the number of ASes
\* present in both snapshots whose per-AS forward diff has
\* class_totals.X.gain > 0 (loss > 0, main > 0); the three are counted
\* independently and each is at most the number of ASes present in both.
Thm_C14_AsLevelCharacteristics ==
  as_pc = "done" =>
    \A ch \in Chars :
      LET cd == as_diff[AsField(ch)]
      IN  /\ cd.gain = Cardinality(AsnsWithPositive(ch, "gain"))
          /\ cd.loss = Cardinality(AsnsWithPositive(ch, "loss"))
          /\ cd.main = Cardinality(AsnsWithPositive(ch, "main"))
          /\ AsnsWithPositive(ch, "gain") = AsnsWithTag(ch, "GAIN")
          /\ AsnsWithPositive(ch, "loss") = AsnsWithTag(ch, "LOSS")
          /\ AsnsWithPositive(ch, "main") = AsnsWithTag(ch, "MAIN")
          /\ cd.gain <= Cardinality(MaintainedAsns)
          /\ cd.loss <= Cardinality(MaintainedAsns)
          /\ cd.main <= Cardinality(MaintainedAsns)

\* C14 witness: a finished AS-level diff in which the one AS present in both
\* snapshots is counted both under gain and under main of a characteristic,
\* and not under its loss.
Wit_C14_OneAsCountedTwice ==
  /\ as_pc = "done"
  /\ Cardinality(MaintainedAsns) = 1
  /\ \E ch \in Chars :
       /\ as_diff[AsField(ch)].main = 1
       /\ as_diff[AsField(ch)].gain = 1
       /\ as_diff[AsField(ch)].loss = 0

\* C15: as_forward_diff_pyts sets asns_observe so that main is the number
\* of origin ASes with at least one prefix in both snapshots, loss the number
\* with prefixes only in old, gain the number with prefixes only in new,
\* each prefix belonging to exactly one AS: the origin ASN of its metadata.
Thm_C15_AsnsObserve ==
  as_pc \in {"per_as", "done"} =>
    /\ as_diff.asns_observe.main =
         Cardinality(OriginsOf(snap_old) \cap OriginsOf(snap_new))
    /\ as_diff.asns_observe.loss =
         Cardinality(OriginsOf(snap_old) \ OriginsOf(snap_new))
    /\ as_diff.asns_observe.gain =
         Cardinality(OriginsOf(snap_new) \ OriginsOf(snap_old))
    /\ \A pfx \in DOMAIN snap_old.pyt :
         {asn \in DOMAIN split_old : pfx \in DOMAIN split_old[asn]}
           = {snap_old.pyt[pfx].origin_asn}
    /\ \A pfx \in DOMAIN snap_new.pyt :
         {asn \in DOMAIN split_new : pfx \in DOMAIN split_new[asn]}
           = {snap_new.pyt[pfx].origin_asn}
    /\ \A asn \in DOMAIN split_old : DOMAIN split_old[asn] \subseteq DOMAIN snap_old.pyt
    /\ \A asn \in DOMAIN split_new : DOMAIN split_new[asn] \subseteq DOMAIN snap_new.pyt

\* C15 witness: a finished AS-level diff in which a prefix of both snapshots
\* changed its origin from an AS seen only in old to an AS seen only in new.
Wit_C15_PrefixChangesOrigin ==
  /\ as_pc = "done"
  /\ as_diff.asns_observe = [gain |-> 1, loss |-> 1, main |-> 0]
  /\ \E pfx \in (DOMAIN snap_old.pyt) \cap (DOMAIN snap_new.pyt) :
       snap_old.pyt[pfx].origin_asn # snap_new.pyt[pfx].origin_asn

====
